---- MODULE Spec2Model ----
(***************************************************************************)
(* The location-resolution and hotspot-retrieval controller of the         *)
(* wildfire dashboard: the MapView component (its two copies in the        *)
(* repository), the App component that holds the list's hotspots and the   *)
(* weather, and the requests in flight between them and the network.       *)
(*                                                                         *)
(* Coordinates are fixed-point integers in units of 1/10000 degree, FRP    *)
(* values in units of 1/10 MW.  A handler runs to its next await as one    *)
(* step (the UI event loop is single threaded); the state written by a     *)
(* step is the state React commits after it.                               *)
(***************************************************************************)
EXTENDS Integers, Sequences, FiniteSets, TLC

VARIABLES
    impl,          \* which copy of MapView is mounted
    phase,         \* "init" before the component mounts, "mounted" after
    geo,           \* navigator.geolocation: "none", "absent", "pending", "done"
    userLocation,  \* MapView state
    mapCenter,     \* MapView state
    hotspots,      \* MapView state
    searchQuery,   \* MapView state
    loading,       \* MapView state
    error,         \* MapView state
    topRanked,     \* App state `hotspots`, handed to HotspotList
    weather,       \* App state `weather`
    requests,      \* every axios request issued so far, in issue order
    completed,     \* indices of the retrievals whose completion ran, in order
    written,       \* the bundle the completion that ran last computed
    view,          \* what HotspotList and the map have rendered
    last           \* the handler step that ran last, with its inputs

vars == <<impl, phase, geo, userLocation, mapCenter, hotspots, searchQuery,
          loading, error, topRanked, weather, requests, completed, written,
          view, last>>

-----------------------------------------------------------------------------
(* Bounds *)

MaxSearches == 1

\* the longest hotspot sequence handed to the views on their own
MaxListLen == 6

-----------------------------------------------------------------------------
(* Values *)

Null == << >>
NoError == "null"

Part000 == "part_000"
MapViewTsx == "MapView.tsx"
Impls == {Part000, MapViewTsx}

\* useState initial value of mapCenter / defaultCenter: [34.0522, -118.2437]
defaultCenter == <<340522, -1182437>>

\* positions the geolocation provider may report
GeoFixes == { <<377749, -1224194>> }

\* text typed in the search box, as sequences of characters
Queries == { << >>, <<" ">>, <<" ", "n", "y", " ">> }

\* candidates of the geocoder: lat and lon are strings
Candidate(lat, lon) == [lat |-> lat, lon |-> lon]
CandNY == Candidate(<<"4","0",".","7","1","2","8">>, <<"-","7","4",".","0","0","6","0">>)
CandLondon == Candidate(<<"5","1",".","5">>, <<"-","0",".","1","2">>)
GeocodeData == { << >>, <<CandNY>>, <<CandLondon, CandNY>> }
GeocodeResponses == { [ok |-> TRUE, data |-> d] : d \in GeocodeData }
                    \cup { [ok |-> FALSE, data |-> << >>] }

Hotspot(id, lat, lng, confidence, frp, t) ==
    [id |-> id, lat |-> lat, lng |-> lng, confidence |-> confidence,
     frp |-> frp, detectionTime |-> t]

\* hotspots the backend may return
ServerHotspots ==
    << Hotspot(11, 341000, -1181000, 80, 500, "t0"),
       Hotspot(12, 342000, -1182000, 50, 120, "t0"),
       Hotspot(13, 343000, -1183000, 49, 75, "t0"),
       Hotspot(14, 344000, -1184000, 100, 900, "t0"),
       Hotspot(15, 345000, -1185000, 79, 10, "t0"),
       Hotspot(16, 346000, -1186000, 0, 0, "t0") >>

ServerWeather == [temp |-> 21, humidity |-> 40, windSpeed |-> 9]

\* An optional JSON field: << >> when absent, <<v>> when present.
Absent == << >>
Present(v) == <<v>>

\* response.data of GET /nearby-hotspots: every field may be absent
RetrievalData ==
    { [weather |-> Present(ServerWeather),
       hotspots |-> Present(ServerHotspots),
       top5 |-> Present(SubSeq(ServerHotspots, 1, 5))],
      [weather |-> Absent,
       hotspots |-> Present(SubSeq(ServerHotspots, 1, 2)),
       top5 |-> Absent],
      [weather |-> Present(ServerWeather),
       hotspots |-> Present(<< >>),
       top5 |-> Present(<< >>)],
      [weather |-> Absent,
       hotspots |-> Present(ServerHotspots),
       top5 |-> Absent],
      [weather |-> Absent, hotspots |-> Absent, top5 |-> Absent] }
RetrievalResponses == { [ok |-> TRUE, data |-> d] : d \in RetrievalData }
                      \cup { [ok |-> FALSE, data |-> Null] }

-----------------------------------------------------------------------------
(* Pure functions of the handlers *)

IsSpace(c) == c = " "

\* String.prototype.trim: drop the white space at both ends
RECURSIVE TrimStart(_)
TrimStart(s) ==
    IF s = << >> THEN s
    ELSE IF IsSpace(Head(s)) THEN TrimStart(Tail(s)) ELSE s

RECURSIVE TrimEnd(_)
TrimEnd(s) ==
    IF s = << >> THEN s
    ELSE IF IsSpace(s[Len(s)]) THEN TrimEnd(SubSeq(s, 1, Len(s) - 1)) ELSE s

trim(s) == TrimEnd(TrimStart(s))

\* !searchQuery.trim(): the empty string is falsy
QueryIsBlank(q) == trim(q) = << >>

Digits == {"0", "1", "2", "3", "4", "5", "6", "7", "8", "9"}

DigitValue(c) ==
    CASE c = "0" -> 0 [] c = "1" -> 1 [] c = "2" -> 2 [] c = "3" -> 3
      [] c = "4" -> 4 [] c = "5" -> 5 [] c = "6" -> 6 [] c = "7" -> 7
      [] c = "8" -> 8 [] c = "9" -> 9

\* the longest prefix of s made of digits
RECURSIVE DigitPrefix(_)
DigitPrefix(s) ==
    IF s = << >> \/ Head(s) \notin Digits THEN << >>
    ELSE <<Head(s)>> \o DigitPrefix(Tail(s))

\* the number a sequence of digits denotes
RECURSIVE DigitsValue(_)
DigitsValue(s) ==
    IF s = << >> THEN 0
    ELSE 10 * DigitsValue(SubSeq(s, 1, Len(s) - 1)) + DigitValue(s[Len(s)])

\* the first four fraction digits, padded with zeros: ten-thousandths
FractionValue(f) ==
    LET padded == SubSeq(f \o <<"0", "0", "0", "0">>, 1, 4)
    IN  DigitsValue(padded)

NaN == "NaN"

\* parseFloat of a decimal string: optional sign, digits, optional fraction;
\* the result in ten-thousandths of a degree
parseFloat(str) ==
    LET s == TrimStart(str)
        neg == s # << >> /\ Head(s) = "-"
        signed == s # << >> /\ Head(s) \in {"-", "+"}
        body == IF signed THEN Tail(s) ELSE s
        ip == DigitPrefix(body)
        rest == SubSeq(body, Len(ip) + 1, Len(body))
        fp == IF rest # << >> /\ Head(rest) = "." THEN DigitPrefix(Tail(rest))
              ELSE << >>
        magnitude == DigitsValue(ip) * 10000 + FractionValue(fp)
    IN  IF ip = << >> /\ fp = << >> THEN NaN
        ELSE IF neg THEN 0 - magnitude ELSE magnitude

\* JavaScript's a || b on values that are objects or arrays when present:
\* an absent field is falsy, an array (even an empty one) is truthy
OrElse(field, fallback) == IF field = Absent THEN fallback ELSE field[1]

\* const mockHotspots = [...] of part_000: offsets from the queried (lat, lng)
mockHotspots(lat, lng) ==
    << Hotspot(1, lat + 1000, lng + 1000, 95, 452, "now"),
       Hotspot(2, lat - 1500, lng + 2000, 78, 321, "now"),
       Hotspot(3, lat + 2000, lng - 1000, 62, 185, "now"),
       Hotspot(4, lat - 800,  lng - 1500, 45, 123, "now"),
       Hotspot(5, lat + 2500, lng + 500,  88, 387, "now") >>

\* const mockHotspots = [...] of MapView.tsx: offsets from the mapCenter the
\* fetchHotspots closure captured
mockHotspotsOfCenter(center) ==
    << Hotspot(1, center[1] + 1000, center[2] + 1000, 95, 452, "now"),
       Hotspot(2, center[1] - 1500, center[2] + 2000, 78, 321, "now"),
       Hotspot(3, center[1] + 2000, center[2] - 1000, 62, 185, "now"),
       Hotspot(4, center[1] - 800,  center[2] - 1500, 45, 123, "now"),
       Hotspot(5, center[1] + 2500, center[2] + 500,  88, 387, "now") >>

mockWeather == [temp |-> 32, humidity |-> 15, windSpeed |-> 25]

\* the error advisories
MockDataError(i) ==
    IF i = Part000 THEN "Using mock data (backend not available)"
    ELSE "Failed to fetch hotspot data. Using mock data."
LocationNotFound == "Location not found"
SearchFailed == "Failed to search location"

-----------------------------------------------------------------------------
(* The views: HotspotList and the map markers *)

\* a getConfidenceColor whose upper boundary is exclusive
getConfidenceColor_Exclusive(confidence) ==
    IF confidence > 80 THEN "text-danger"
    ELSE IF confidence >= 50 THEN "text-warning"
    ELSE "text-caution"

\* getConfidenceColor
getConfidenceColor(confidence) ==
    IF confidence >= 80 THEN "text-danger"
    ELSE IF confidence >= 50 THEN "text-warning"
    ELSE "text-caution"

\* getConfidenceBg
getConfidenceBg(confidence) ==
    IF confidence >= 80 THEN "bg-danger/20 border-danger/30"
    ELSE IF confidence >= 50 THEN "bg-warning/20 border-warning/30"
    ELSE "bg-caution/20 border-caution/30"

\* the dot in the header of a HotspotCard
CardDot(confidence) ==
    IF confidence >= 80 THEN "bg-danger"
    ELSE IF confidence >= 50 THEN "bg-warning"
    ELSE "bg-caution"

\* createMarkerIcon of MapView.tsx: the colour of the marker
createMarkerIcon(confidence) ==
    IF confidence >= 80 THEN "#ef4444"
    ELSE IF confidence >= 50 THEN "#f97316"
    ELSE "#eab308"

\* createMarkerIcon of LeafletMap, the map part_000 renders
createMarkerIconLeaflet(confidence) ==
    IF confidence >= 80 THEN "#ef4444"
    ELSE IF confidence >= 50 THEN "#f97316"
    ELSE "#eab308"

\* the icon of each marker the mounted MapView draws: one per hotspot
Markers(i, hs) ==
    [k \in DOMAIN hs |->
        IF i = Part000 THEN createMarkerIconLeaflet(hs[k].confidence)
        ELSE createMarkerIcon(hs[k].confidence)]

\* <HotspotCard hotspot={hotspot} index={index} />
HotspotCard(hotspot, index) ==
    [hotspot |-> hotspot, index |-> index,
     dot |-> CardDot(hotspot.confidence),
     bg |-> getConfidenceBg(hotspot.confidence),
     color |-> getConfidenceColor(hotspot.confidence)]

\* a list that shows the last five hotspots it is given
Slice5_Last(hs) == SubSeq(hs, IF Len(hs) < 5 THEN 1 ELSE Len(hs) - 4, Len(hs))

\* hotspots.slice(0, 5)
Slice5(hs) == SubSeq(hs, 1, IF Len(hs) < 5 THEN Len(hs) ELSE 5)

\* hotspots.slice(0, 5).map((hotspot, index) => <HotspotCard ... />)
Cards(hs) == [k \in DOMAIN Slice5(hs) |-> HotspotCard(Slice5(hs)[k], k - 1)]

\* the filters of the stats bar
IsHighRisk(h) == h.confidence >= 80
IsMediumRisk_Open(h) == h.confidence > 50 /\ h.confidence < 80
IsMediumRisk(h) == h.confidence >= 50 /\ h.confidence < 80
IsLowRisk(h) == h.confidence < 50

\* WeatherCard: nothing without weather; the risk indicator
WeatherCard(w) ==
    IF w = Null THEN Null
    ELSE [weather |-> w, highRisk |-> (w.humidity < 20 /\ w.windSpeed > 20)]

\* HotspotList({ hotspots, weather }): the grid or the 'No hotspots detected'
\* state, and the stats bar
HotspotList(hs, w) ==
    [weatherCard |-> WeatherCard(w),
     noHotspots |-> ~(Len(hs) > 0),
     cards |-> IF Len(hs) > 0 THEN Cards(hs) ELSE << >>,
     total |-> Len(hs),
     high |-> Len(SelectSeq(hs, IsHighRisk)),
     medium |-> Len(SelectSeq(hs, IsMediumRisk)),
     low |-> Len(SelectSeq(hs, IsLowRisk))]

\* what is on screen: App hands its hotspots and weather to HotspotList,
\* MapView hands its own hotspots to the map
Render(i, mapHotspots, listHotspots, w) ==
    [list |-> HotspotList(listHotspots, w),
     markers |-> Markers(i, mapHotspots)]

\* React renders again after every state update
RenderViews == view' = Render(impl, hotspots', topRanked', weather')

-----------------------------------------------------------------------------
(* Requests in flight *)

Retrieval(coord, closureCenter) ==
    [kind |-> "retrieval", coord |-> coord, query |-> << >>,
     center |-> closureCenter, status |-> "pending"]

Geocode(query, closureCenter) ==
    [kind |-> "geocode", coord |-> Null, query |-> query,
     center |-> closureCenter, status |-> "pending"]

Pending(kind) ==
    { i \in DOMAIN requests :
        requests[i].kind = kind /\ requests[i].status = "pending" }

Issued(kind) == { i \in DOMAIN requests : requests[i].kind = kind }

\* the request's promise settles
Resolve(i) == [requests EXCEPT ![i].status = "done"]

\* The mapCenter a closure created in the current render captures.  Only
\* fetchHotspots of MapView.tsx reads mapCenter (its mock data, and its
\* useCallback dependency list); fetchHotspots of part_000 captures none.
CapturedCenter(i, center) == IF i = MapViewTsx THEN center ELSE Null

\* The mapCenter of the first render, which the geolocation effect (run once,
\* after the first render) captured
FirstRenderCenter(i) == CapturedCenter(i, defaultCenter)

Event(op, idx, resp, coord) ==
    [op |-> op, idx |-> idx, resp |-> resp, coord |-> coord]

-----------------------------------------------------------------------------
(* fetchHotspots *)

\* a fetchHotspots that sends its request twice
fetchHotspots_Twice(reqs, coord, closureCenter, callerClearsLoading) ==
    /\ loading' = ~callerClearsLoading
    /\ error' = NoError
    /\ requests' = Append(Append(reqs, Retrieval(coord, closureCenter)),
                          Retrieval(coord, closureCenter))

\* fetchHotspots up to its await: setLoading(true); setError(null); axios.get.
\* The caller's step goes on after the call returns: callerClearsLoading says
\* whether it then calls setLoading(false) before the step ends.
fetchHotspots(reqs, coord, closureCenter, callerClearsLoading) ==
    /\ loading' = ~callerClearsLoading
    /\ error' = NoError
    /\ requests' = Append(reqs, Retrieval(coord, closureCenter))

\* setHotspots(fetchedHotspots || [])
FetchedHotspots(data) == OrElse(data.hotspots, << >>)

\* onHotspotsUpdate?.(top5 || fetchedHotspots || []) in part_000,
\* onHotspotsUpdate?.(top5 || []) in MapView.tsx
RankedHotspots(i, data) ==
    IF i = Part000
    THEN OrElse(data.top5, OrElse(data.hotspots, << >>))
    ELSE OrElse(data.top5, << >>)

\* onWeatherUpdate?.(weather || null)
FetchedWeather(data) == OrElse(data.weather, Null)

\* the mock hotspots of the catch branch
MockFor(i, req) ==
    IF i = Part000
    THEN mockHotspots(req.coord[1], req.coord[2])
    ELSE mockHotspotsOfCenter(req.center)

\* a fetchHotspots without its finally block
LoadingAfterFetch_NoFinally == loading

\* what the finally block of fetchHotspots leaves in loading
LoadingAfterFetch == FALSE

\* the three values a completion hands to setHotspots, onHotspotsUpdate and
\* onWeatherUpdate: the try branch on success, the catch branch on failure
Bundle(i, req, resp) ==
    IF resp.ok
    THEN [hotspots |-> FetchedHotspots(resp.data),
          topRanked |-> RankedHotspots(i, resp.data),
          weather |-> FetchedWeather(resp.data)]
    ELSE [hotspots |-> MockFor(i, req),
          topRanked |-> MockFor(i, req),
          weather |-> mockWeather]

\* a fetchHotspots that tags its request and drops the completion of any
\* retrieval that is not the latest one issued
fetchHotspotsDone_Fenced(i, resp) ==
    /\ i \in Pending("retrieval")
    /\ written' = Bundle(impl, requests[i], resp)
    /\ IF \A j \in Issued("retrieval") : j <= i
       THEN /\ hotspots' = written'.hotspots
            /\ topRanked' = written'.topRanked
            /\ weather' = written'.weather
            /\ error' = (IF resp.ok THEN error ELSE MockDataError(impl))
       ELSE UNCHANGED <<hotspots, topRanked, weather, error>>
    /\ loading' = LoadingAfterFetch
    /\ requests' = Resolve(i)
    /\ completed' = Append(completed, i)
    /\ last' = Event("fetchHotspotsDone", i, resp, requests[i].coord)
    /\ UNCHANGED <<impl, phase, geo, userLocation, mapCenter, searchQuery>>
    /\ RenderViews

\* a fetchHotspots that adds the hotspots it received to the ones on screen
fetchHotspotsDone_Merging(i, resp) ==
    /\ i \in Pending("retrieval")
    /\ written' = Bundle(impl, requests[i], resp)
    /\ hotspots' = hotspots \o written'.hotspots
    /\ topRanked' = written'.topRanked
    /\ weather' = written'.weather
    /\ error' = (IF resp.ok THEN error ELSE MockDataError(impl))
    /\ loading' = LoadingAfterFetch
    /\ requests' = Resolve(i)
    /\ completed' = Append(completed, i)
    /\ last' = Event("fetchHotspotsDone", i, resp, requests[i].coord)
    /\ UNCHANGED <<impl, phase, geo, userLocation, mapCenter, searchQuery>>
    /\ RenderViews

\* fetchHotspots from the resolution of its await to its end
fetchHotspotsDone(i, resp) ==
    /\ i \in Pending("retrieval")
    /\ written' = Bundle(impl, requests[i], resp)
    /\ hotspots' = written'.hotspots
    /\ topRanked' = written'.topRanked
    /\ weather' = written'.weather
    /\ error' = (IF resp.ok THEN error ELSE MockDataError(impl))
    /\ loading' = LoadingAfterFetch
    /\ requests' = Resolve(i)
    /\ completed' = Append(completed, i)
    /\ last' = Event("fetchHotspotsDone", i, resp, requests[i].coord)
    /\ UNCHANGED <<impl, phase, geo, userLocation, mapCenter, searchQuery>>
    /\ RenderViews

-----------------------------------------------------------------------------
(* The geolocation effect *)

\* the coordinate the error callback and the no-capability branch query:
\* defaultCenter in part_000, the first render's mapCenter in MapView.tsx
FallbackCoordinate(i) == defaultCenter

\* useEffect on mount: navigator.geolocation present or not
Mount(hasGeolocation) ==
    /\ phase = "init"
    /\ phase' = "mounted"
    /\ IF hasGeolocation
       THEN /\ geo' = "pending"
            /\ UNCHANGED <<loading, error, requests>>
       ELSE /\ geo' = "absent"
            /\ fetchHotspots(requests, FallbackCoordinate(impl),
                             FirstRenderCenter(impl), FALSE)
    /\ last' = Event("Mount", IF hasGeolocation THEN 0 ELSE 1, Null, Null)
    /\ UNCHANGED <<impl, userLocation, mapCenter, hotspots, searchQuery,
                   topRanked, weather, completed, written>>
    /\ RenderViews

\* a success callback that forgets setMapCenter
GeoSuccess_KeepsCenter(c) ==
    /\ geo = "pending"
    /\ geo' = "done"
    /\ userLocation' = c
    /\ fetchHotspots(requests, c, FirstRenderCenter(impl), FALSE)
    /\ last' = Event("GeoSuccess", Len(requests) + 1, Null, c)
    /\ UNCHANGED <<impl, phase, mapCenter, hotspots, searchQuery, topRanked,
                   weather, completed, written>>
    /\ RenderViews

\* the success callback of getCurrentPosition
GeoSuccess(c) ==
    /\ geo = "pending"
    /\ geo' = "done"
    /\ userLocation' = c
    /\ mapCenter' = c
    /\ fetchHotspots(requests, c, FirstRenderCenter(impl), FALSE)
    /\ last' = Event("GeoSuccess", Len(requests) + 1, Null, c)
    /\ UNCHANGED <<impl, phase, hotspots, searchQuery, topRanked, weather,
                   completed, written>>
    /\ RenderViews

\* the error callback of getCurrentPosition
GeoError ==
    /\ geo = "pending"
    /\ geo' = "done"
    /\ fetchHotspots(requests, FallbackCoordinate(impl),
                     FirstRenderCenter(impl), FALSE)
    /\ last' = Event("GeoError", Len(requests) + 1, Null, Null)
    /\ UNCHANGED <<impl, phase, userLocation, mapCenter, hotspots, searchQuery,
                   topRanked, weather, completed, written>>
    /\ RenderViews

-----------------------------------------------------------------------------
(* The search box *)

\* onChange of the input: setSearchQuery(e.target.value)
setSearchQuery(q) ==
    /\ phase = "mounted"
    /\ searchQuery' = q
    /\ last' = Event("setSearchQuery", 0, Null, Null)
    /\ UNCHANGED <<impl, phase, geo, userLocation, mapCenter, hotspots,
                   loading, error, topRanked, weather, requests, completed,
                   written>>
    /\ RenderViews

\* the submit button is disabled while loading, and a form whose submit button
\* is disabled is not submitted
CanSubmit == ~loading

\* handleSearch up to its await
handleSearch ==
    /\ phase = "mounted"
    /\ CanSubmit
    /\ IF QueryIsBlank(searchQuery)
       THEN /\ last' = Event("handleSearch", 0, Null, Null)
            /\ UNCHANGED <<loading, requests>>
       ELSE /\ Cardinality(Issued("geocode")) < MaxSearches
            /\ loading' = TRUE
            /\ requests' = Append(requests,
                   Geocode(searchQuery, CapturedCenter(impl, mapCenter)))
            /\ last' = Event("handleSearch", Len(requests) + 1, Null, Null)
    /\ UNCHANGED <<impl, phase, geo, userLocation, mapCenter, hotspots,
                   searchQuery, error, topRanked, weather, completed, written>>
    /\ RenderViews

\* a newCenter taken from the last candidate instead of the first
NewCenter_LastCandidate(data) ==
    <<parseFloat(data[Len(data)].lat), parseFloat(data[Len(data)].lon)>>

\* const newCenter = [parseFloat(lat), parseFloat(lon)] of response.data[0]
NewCenter(data) == <<parseFloat(data[1].lat), parseFloat(data[1].lon)>>

\* response.data?.length > 0
HasCandidate(resp) == resp.ok /\ Len(resp.data) > 0

\* Whether handleSearch calls setLoading(false) after its try block: the
\* finally block of MapView.tsx does, part_000 has none.
SearchFinallyClears(i) == i = MapViewTsx

\* a handleSearch that sets the error and forgets setLoading(false)
LoadingAfterFailedSearch_Kept == loading

\* loading at the end of a handleSearch that issued no retrieval: cleared in
\* the else and catch branches of part_000, and by the finally of MapView.tsx
LoadingAfterFailedSearch == FALSE

\* a handleSearch whose catch reports 'Location not found'
SearchError_NotFound(resp) == LocationNotFound

\* the advisory of a search that found nothing: setError('Location not found')
\* in the else branch, setError('Failed to search location') in the catch
SearchError(resp) == IF resp.ok THEN LocationNotFound ELSE SearchFailed

\* handleSearch from the resolution of its await to its end
handleSearchDone(i, resp) ==
    /\ i \in Pending("geocode")
    /\ IF HasCandidate(resp)
       THEN /\ mapCenter' = NewCenter(resp.data)
            /\ fetchHotspots(Resolve(i), NewCenter(resp.data),
                             requests[i].center, SearchFinallyClears(impl))
       ELSE /\ error' = SearchError(resp)
            /\ requests' = Resolve(i)
            /\ loading' = LoadingAfterFailedSearch
            /\ UNCHANGED mapCenter
    /\ last' = Event("handleSearchDone", i, resp, Null)
    /\ UNCHANGED <<impl, phase, geo, userLocation, hotspots, searchQuery,
                   topRanked, weather, completed, written>>
    /\ RenderViews

-----------------------------------------------------------------------------
(* The specification *)

Init ==
    /\ impl \in Impls
    /\ phase = "init"
    /\ geo = "none"
    /\ userLocation = Null
    /\ mapCenter = defaultCenter
    /\ hotspots = << >>
    /\ searchQuery = << >>
    /\ loading = FALSE
    /\ error = NoError
    /\ topRanked = << >>
    /\ weather = Null
    /\ requests = << >>
    /\ completed = << >>
    /\ written = Null
    /\ view = Render(impl, hotspots, topRanked, weather)
    /\ last = Event("init", 0, Null, Null)

\* the geocoding request of some search settles
GeocodeSettles ==
    \E i \in DOMAIN requests : \E r \in GeocodeResponses : handleSearchDone(i, r)

\* some retrieval request settles
RetrievalSettles ==
    \E i \in DOMAIN requests : \E r \in RetrievalResponses : fetchHotspotsDone(i, r)

Next ==
    \/ \E g \in BOOLEAN : Mount(g)
    \/ \E c \in GeoFixes : GeoSuccess(c)
    \/ GeoError
    \/ \E q \in Queries : setSearchQuery(q)
    \/ handleSearch
    \/ GeocodeSettles
    \/ RetrievalSettles

Spec == Init /\ [][Next]_vars

\* every request issued eventually settles: an axios promise that is pending
\* stays pending until it resolves or rejects
FairSpec == Spec /\ WF_vars(GeocodeSettles) /\ WF_vars(RetrievalSettles)

-----------------------------------------------------------------------------
(* The views on their own: HotspotList and the map given any hotspots *)

\* a hotspot with the given id and confidence
SampleHotspot(id, confidence) ==
    Hotspot(id, 340000 + id, -1180000 - id, confidence, 10 * id, "t0")

\* the confidences just below, at and above a bucket boundary
BoundaryConfidences == {49, 50, 80}

\* The confidence of the next hotspot the views are exercised with: a first
\* hotspot of every confidence 0..100, and after a first hotspot at a bucket
\* boundary further ones, up to MaxListLen hotspots
NextConfidences(hs) ==
    IF hs = << >> THEN 0..100
    ELSE IF hs[1].confidence \in BoundaryConfidences /\ Len(hs) < MaxListLen
    THEN BoundaryConfidences
    ELSE {}

\* App and MapView as mounted: no hotspots yet, with or without weather
ViewInit ==
    /\ impl \in Impls
    /\ phase = "mounted"
    /\ geo = "done"
    /\ userLocation = Null
    /\ mapCenter = defaultCenter
    /\ hotspots = << >>
    /\ topRanked = << >>
    /\ weather \in {Null, mockWeather}
    /\ searchQuery = << >>
    /\ loading = FALSE
    /\ error = NoError
    /\ requests = << >>
    /\ completed = << >>
    /\ written = Null
    /\ view = Render(impl, hotspots, topRanked, weather)
    /\ last = Event("render", 0, Null, Null)

\* the parent hands new hotspots to the views, which render again
NewProps(hs) ==
    /\ hotspots' = hs
    /\ topRanked' = hs
    /\ last' = Event("render", 0, Null, Null)
    /\ UNCHANGED <<impl, phase, geo, userLocation, mapCenter, searchQuery,
                   loading, error, weather, requests, completed, written>>
    /\ RenderViews

ViewNext ==
    \E c \in NextConfidences(hotspots) :
        NewProps(Append(hotspots, SampleHotspot(Len(hotspots) + 1, c)))

ViewSpec == ViewInit /\ [][ViewNext]_vars

-----------------------------------------------------------------------------
(* Properties *)

NoRequestPending == Pending("retrieval") = {} /\ Pending("geocode") = {}

Range(seq) == { seq[k] : k \in DOMAIN seq }

\* the last completion to run, and whether a retrieval issued after it had
\* already completed when it ran
LastCompleted == completed[Len(completed)]
CompletedOutOfOrder ==
    \E k \in DOMAIN completed : k < Len(completed) /\ completed[k] > LastCompleted

\* C1: if every request eventually settles, loading is never true forever:
\* whenever no geocoding or retrieval request is pending loading is false,
\* every completion of fetchHotspots (success or mock data) leaves loading
\* false, and a state with loading true leads to one with loading false.
C1_LoadingNeverStuck ==
    /\ [](NoRequestPending => ~loading)
    /\ [][last'.op = "fetchHotspotsDone" => ~loading']_vars
    /\ (loading ~> ~loading)

\* C1 witness: a retrieval that followed a search has completed on the mock
\* branch, nothing is pending and loading is false.
C1_Witness ==
    /\ last.op = "fetchHotspotsDone"
    /\ ~last.resp.ok
    /\ Issued("geocode") # {}
    /\ NoRequestPending
    /\ ~loading

\* C2: loading is true if and only if a retrieval has been issued and has not
\* yet resolved.
C2_LoadingIffRetrievalPending == loading <=> (Pending("retrieval") # {})

\* C3: once no retrieval is pending, the map hotspots, the list's ranked
\* hotspots and the weather are the bundle of the retrieval whose completion
\* ran last, whatever the order of the completions.
C3_LastCompletionWins ==
    (Pending("retrieval") = {} /\ completed # << >>) =>
        /\ hotspots = written.hotspots
        /\ topRanked = written.topRanked
        /\ weather = written.weather

\* C3 witness: two retrievals overlapped and completed in the reverse of their
\* issue order, and none is pending.
C3_Witness ==
    /\ Pending("retrieval") = {}
    /\ Len(completed) >= 2
    /\ CompletedOutOfOrder
    /\ hotspots = written.hotspots
    /\ hotspots # << >>

\* C4: retrievals are neither cancelled nor fenced: the completion of a
\* retrieval that was issued before one that has already completed still
\* overwrites hotspots, ranked list and weather with its own result (the
\* response's hotspots and weather, or the 5 mock hotspots and the mock
\* weather), and leaves the center where the later trigger put it.
C4_StaleCompletionOverwrites ==
    [][ (last'.op = "fetchHotspotsDone"
            /\ \E j \in Range(completed) : j > last'.idx)
        => /\ mapCenter' = mapCenter
           /\ hotspots' = written'.hotspots
           /\ topRanked' = written'.topRanked
           /\ weather' = written'.weather
           /\ IF last'.resp.ok
              THEN /\ hotspots' = (IF last'.resp.data.hotspots = << >> THEN << >>
                                   ELSE last'.resp.data.hotspots[1])
                   /\ weather' = (IF last'.resp.data.weather = << >> THEN << >>
                                  ELSE last'.resp.data.weather[1])
              ELSE /\ Len(hotspots') = 5
                   /\ topRanked' = hotspots'
                   /\ weather' = [temp |-> 32, humidity |-> 15, windSpeed |-> 25]
      ]_vars

\* C4 witness: nothing is pending, retrieval A was issued before retrieval B
\* for another coordinate and completed after it, the center is B's
\* coordinate and the hotspots are the mock hotspots around A's coordinate.
C4_Witness ==
    /\ NoRequestPending
    /\ geo # "pending"
    /\ Len(completed) >= 2
    /\ \E b \in Range(completed) :
          /\ b > LastCompleted
          /\ requests[b].coord # requests[LastCompleted].coord
          /\ mapCenter = requests[b].coord
    /\ Len(hotspots) = 5
    /\ hotspots[1].lat = requests[LastCompleted].coord[1] + 1000
    /\ hotspots[1].lng = requests[LastCompleted].coord[2] + 1000
    /\ topRanked = hotspots
    /\ weather = [temp |-> 32, humidity |-> 15, windSpeed |-> 25]

\* C5: after the completion of a retrieval fetchHotspots(lat, lng) whose
\* request failed, hotspots has exactly 5 elements with confidences
\* 95,78,62,45,88, FRPs 45.2,32.1,18.5,12.3,38.7 and positions at the fixed
\* offsets from the queried (lat, lng), and weather is {32, 15, 25}.
C5_MockBundleAroundQueriedCoordinate ==
    (last.op = "fetchHotspotsDone" /\ ~last.resp.ok) =>
        LET lat == last.coord[1]
            lng == last.coord[2]
        IN  /\ Len(hotspots) = 5
            /\ <<hotspots[1].confidence, hotspots[2].confidence,
                 hotspots[3].confidence, hotspots[4].confidence,
                 hotspots[5].confidence>> = <<95, 78, 62, 45, 88>>
            /\ <<hotspots[1].frp, hotspots[2].frp, hotspots[3].frp,
                 hotspots[4].frp, hotspots[5].frp>> = <<452, 321, 185, 123, 387>>
            /\ <<hotspots[1].lat, hotspots[1].lng>> = <<lat + 1000, lng + 1000>>
            /\ <<hotspots[2].lat, hotspots[2].lng>> = <<lat - 1500, lng + 2000>>
            /\ <<hotspots[3].lat, hotspots[3].lng>> = <<lat + 2000, lng - 1000>>
            /\ <<hotspots[4].lat, hotspots[4].lng>> = <<lat - 800, lng - 1500>>
            /\ <<hotspots[5].lat, hotspots[5].lng>> = <<lat + 2500, lng + 500>>
            /\ weather = [temp |-> 32, humidity |-> 15, windSpeed |-> 25]

\* C6: when the geolocation request fails or the capability is absent, at
\* whatever point of the session, center is the default (34.0522, -118.2437),
\* a retrieval has been issued for the default coordinate, and error is not set.
C6_GeoFailureCentersOnDefault ==
    (last.op = "GeoError" \/ (last.op = "Mount" /\ geo = "absent")) =>
        /\ mapCenter = <<340522, -1182437>>
        /\ last.idx = Len(requests)
        /\ requests[last.idx].kind = "retrieval"
        /\ requests[last.idx].coord = <<340522, -1182437>>
        /\ requests[last.idx].status = "pending"
        /\ error = NoError

\* C7: the success callback of the geolocation request, given coordinate c,
\* sets userLocation and center to c and issues one retrieval for c, whatever
\* a search did to the center before.
C7_GeoSuccessAdoptsFix ==
    [][ last'.op = "GeoSuccess"
        => /\ userLocation' = last'.coord
           /\ mapCenter' = last'.coord
           /\ Len(requests') = Len(requests) + 1
           /\ SubSeq(requests', 1, Len(requests)) = requests
           /\ requests'[Len(requests')].kind = "retrieval"
           /\ requests'[Len(requests')].coord = last'.coord
           /\ requests'[Len(requests')].status = "pending"
      ]_vars

\* C7 witness: the fix arrived after a search had moved the center and issued
\* its own retrieval; userLocation and center are the fix.
C7_Witness ==
    /\ last.op = "GeoSuccess"
    /\ \E i \in Issued("retrieval") : i < last.idx
    /\ userLocation = <<377749, -1224194>>
    /\ mapCenter = <<377749, -1224194>>
    /\ requests[Len(requests)].coord = <<377749, -1224194>>

\* the coordinate a candidate's lat and lon strings denote: "40.7128",
\* "-74.0060" and "51.5", "-0.12"
CoordinateOf(candidate) ==
    IF candidate = CandNY THEN <<407128, -740060>> ELSE <<515000, -1200>>

\* C8: when the geocoder of a submitted search returns at least one
\* candidate, center becomes the first candidate's (lat, lon), one retrieval
\* is issued for exactly that coordinate, and userLocation is unchanged.
C8_SearchMovesCenterOnly ==
    [][ (last'.op = "handleSearchDone" /\ last'.resp.ok
            /\ Len(last'.resp.data) > 0)
        => /\ mapCenter' = CoordinateOf(last'.resp.data[1])
           /\ Len(requests') = Len(requests) + 1
           /\ requests'[Len(requests')].kind = "retrieval"
           /\ requests'[Len(requests')].coord = CoordinateOf(last'.resp.data[1])
           /\ requests'[Len(requests')].status = "pending"
           /\ userLocation' = userLocation
      ]_vars

\* C8 witness: after a geolocation fix, a search whose first candidate is
\* London (of two candidates) moved the center there and issued a retrieval
\* for it; userLocation is still the fix.
C8_Witness ==
    /\ last.op = "handleSearchDone"
    /\ last.resp.ok
    /\ Len(last.resp.data) = 2
    /\ mapCenter = <<515000, -1200>>
    /\ userLocation = <<377749, -1224194>>
    /\ requests[Len(requests)].kind = "retrieval"
    /\ requests[Len(requests)].coord = <<515000, -1200>>

\* C9: when the geocoder of a submitted search returns zero candidates, the
\* end of the search handler leaves error = 'Location not found' and loading
\* false, issues no retrieval, and leaves hotspots, center and userLocation
\* as they were.
C9_NoCandidateLeavesState ==
    [][ (last'.op = "handleSearchDone" /\ last'.resp.ok
            /\ Len(last'.resp.data) = 0)
        => /\ error' = "Location not found"
           /\ loading' = FALSE
           /\ requests' = [requests EXCEPT ![last'.idx].status = "done"]
           /\ hotspots' = hotspots
           /\ mapCenter' = mapCenter
           /\ userLocation' = userLocation
      ]_vars

\* C9 witness: a search found no candidate while hotspots were displayed and
\* the user's location was known.
C9_Witness ==
    /\ last.op = "handleSearchDone"
    /\ last.resp.ok
    /\ last.resp.data = << >>
    /\ error = "Location not found"
    /\ ~loading
    /\ hotspots # << >>
    /\ userLocation # Null

\* C10: when the geocoding call of a search fails, the end of the search
\* handler leaves error = 'Failed to search location' and loading false,
\* issues no retrieval, and leaves center, userLocation, hotspots, ranked
\* list and weather as they were.
C10_GeocodingFailureLeavesState ==
    [][ (last'.op = "handleSearchDone" /\ ~last'.resp.ok)
        => /\ error' = "Failed to search location"
           /\ loading' = FALSE
           /\ requests' = [requests EXCEPT ![last'.idx].status = "done"]
           /\ mapCenter' = mapCenter
           /\ userLocation' = userLocation
           /\ hotspots' = hotspots
           /\ topRanked' = topRanked
           /\ weather' = weather
      ]_vars

\* C10 witness: the geocoding call failed while hotspots, ranked list and
\* weather were displayed.
C10_Witness ==
    /\ last.op = "handleSearchDone"
    /\ ~last.resp.ok
    /\ error = "Failed to search location"
    /\ ~loading
    /\ hotspots # << >>
    /\ topRanked # << >>
    /\ weather # Null

\* C11: every trigger that resolves a coordinate (geolocation success,
\* geolocation failure, no geolocation capability, a search with at least one
\* candidate) issues exactly one retrieval request in its step, and no other
\* step issues one: a failed retrieval is not sent again, so the number of
\* retrieval requests sent is the number of such triggers.
C11_OneRetrievalPerTrigger ==
    [][ LET trigger ==
                \/ last'.op \in {"GeoSuccess", "GeoError"}
                \/ last'.op = "Mount" /\ geo' = "absent"
                \/ /\ last'.op = "handleSearchDone"
                   /\ last'.resp.ok
                   /\ Len(last'.resp.data) > 0
            sent(reqs) ==
                Cardinality({ k \in DOMAIN reqs : reqs[k].kind = "retrieval" })
        IN  sent(requests') = sent(requests) + (IF trigger THEN 1 ELSE 0)
      ]_vars

\* C11 witness: a geolocation failure and a search with a candidate have each
\* issued their retrieval, both completed, one of them on the mock branch, and
\* exactly two retrieval requests were sent.
C11_Witness ==
    /\ geo = "done"
    /\ userLocation = Null
    /\ Cardinality(Issued("geocode")) = 1
    /\ Cardinality(Issued("retrieval")) = 2
    /\ NoRequestPending
    /\ last.op = "fetchHotspotsDone"
    /\ ~last.resp.ok

\* the sequence a field of the response holds, empty when the field is absent
FieldOrEmpty(field) == IF field = << >> THEN << >> ELSE field[1]

\* C12: after the completion of a retrieval that succeeded with a response
\* whose hotspots and top5 are empty or absent, hotspots is the empty
\* sequence, the ranked list is empty (no mock data) and error is absent.
C12_EmptyResultIsNotAnError ==
    (/\ last.op = "fetchHotspotsDone"
     /\ last.resp.ok
     /\ FieldOrEmpty(last.resp.data.hotspots) = << >>
     /\ FieldOrEmpty(last.resp.data.top5) = << >>)
    => /\ hotspots = << >>
       /\ topRanked = << >>
       /\ error = NoError

\* C13: after the completion of a successful retrieval, the ranked list
\* handed to the list view is the server's top5 when the response has it, and
\* otherwise the returned hotspots sequence, unchanged.
C13_RankedListFallsBackToHotspots ==
    (last.op = "fetchHotspotsDone" /\ last.resp.ok)
    => topRanked = (IF last.resp.data.top5 # << >> THEN last.resp.data.top5[1]
                    ELSE FieldOrEmpty(last.resp.data.hotspots))

\* whether a is a subsequence of b: a's elements appear in b in a's order
RECURSIVE IsSubsequence(_, _)
IsSubsequence(a, b) ==
    IF a = << >> THEN TRUE
    ELSE IF b = << >> THEN FALSE
    ELSE IF Head(a) = Head(b) THEN IsSubsequence(Tail(a), Tail(b))
    ELSE IsSubsequence(a, Tail(b))

\* C14: in every reachable state the ranked list held by App is a
\* subsequence of the controller's hotspots and has at most 5 elements.
C14_RankedListIsShortSubsequence ==
    /\ Len(topRanked) <= 5
    /\ IsSubsequence(topRanked, hotspots)

\* the bucket of a confidence: High from 80, Medium from 50 to 79, Low below 50
Buckets == {"High", "Medium", "Low"}
Bucket(c) ==
    CHOOSE b \in Buckets :
        /\ b = "High" <=> c >= 80
        /\ b = "Medium" <=> (50 <= c /\ c < 80)
        /\ b = "Low" <=> c < 50

\* how many hotspots of a sequence are in a bucket
InBucket(hs, b) == Cardinality({ k \in DOMAIN hs : Bucket(hs[k].confidence) = b })

\* what each place shows for a bucket
TextOf == [High |-> "text-danger", Medium |-> "text-warning", Low |-> "text-caution"]
BgOf == [High |-> "bg-danger/20 border-danger/30",
         Medium |-> "bg-warning/20 border-warning/30",
         Low |-> "bg-caution/20 border-caution/30"]
DotOf == [High |-> "bg-danger", Medium |-> "bg-warning", Low |-> "bg-caution"]
MarkerOf == [High |-> "#ef4444", Medium |-> "#f97316", Low |-> "#eab308"]

\* C15: every place that classifies a confidence gives it the same single
\* bucket, High from 80, Medium from 50 to 79, Low below 50: the text, the
\* background and the dot of every card, the icon of every marker (of either
\* map), and the three counts of the stats bar.
C15_OneBucketEverywhere ==
    /\ \A k \in DOMAIN view.list.cards :
          LET b == Bucket(topRanked[k].confidence)
          IN  /\ view.list.cards[k].color = TextOf[b]
              /\ view.list.cards[k].bg = BgOf[b]
              /\ view.list.cards[k].dot = DotOf[b]
    /\ \A k \in DOMAIN view.markers :
          view.markers[k] = MarkerOf[Bucket(hotspots[k].confidence)]
    /\ view.list.high = InBucket(topRanked, "High")
    /\ view.list.medium = InBucket(topRanked, "Medium")
    /\ view.list.low = InBucket(topRanked, "Low")

\* the two boundary values on screen: 80 shown as High, 50 as Medium
C15_Witness ==
    /\ Len(hotspots) = 2
    /\ hotspots[1].confidence = 80
    /\ hotspots[2].confidence = 50
    /\ view.list.cards[1].color = "text-danger"
    /\ view.list.cards[2].dot = "bg-warning"
    /\ view.markers = <<"#ef4444", "#f97316">>
    /\ view.list.high = 1
    /\ view.list.medium = 1
    /\ view.list.low = 0

\* C16: after a retrieval completes, the High, Medium and Low counts of the
\* stats bar are the bucket counts over the controller's full hotspots
\* sequence, the one the map draws markers for.
C16_StatsCountAllHotspots ==
    last.op = "fetchHotspotsDone"
    => /\ view.list.high = InBucket(hotspots, "High")
       /\ view.list.medium = InBucket(hotspots, "Medium")
       /\ view.list.low = InBucket(hotspots, "Low")
       /\ Len(view.markers) = Len(hotspots)

\* C17: the High, Medium and Low counts HotspotList shows sum to the total it
\* shows, and the total is the length of the sequence it was given.
C17_CountsSumToTotal ==
    /\ view.list.high + view.list.medium + view.list.low = view.list.total
    /\ view.list.total = Len(topRanked)

\* a list of six hotspots with every bucket in it
C17_Witness ==
    /\ Len(topRanked) = 6
    /\ view.list.total = 6
    /\ view.list.high = 1
    /\ view.list.medium = 2
    /\ view.list.low = 3

Min(a, b) == IF a < b THEN a ELSE b

\* C18: the cards are the first min(5, length) elements of the sequence given
\* to the list, in the order received, and the 'no hotspots' state is shown
\* exactly when the sequence is empty.
C18_CardsAreFirstFiveInOrder ==
    /\ Len(view.list.cards) = Min(5, Len(topRanked))
    /\ \A k \in DOMAIN view.list.cards :
          /\ view.list.cards[k].hotspot = topRanked[k]
          /\ view.list.cards[k].index = k - 1
    /\ view.list.noHotspots <=> Len(topRanked) = 0

\* six hotspots in an order that is neither by confidence nor by FRP: five
\* cards, the sixth hotspot (the highest confidence and FRP) not shown
C18_Witness ==
    /\ Len(topRanked) = 6
    /\ Len(view.list.cards) = 5
    /\ ~view.list.noHotspots
    /\ topRanked[1].confidence = 49
    /\ topRanked[2].confidence = 80
    /\ topRanked[5].confidence = 50
    /\ topRanked[6].confidence = 80
    /\ view.list.cards[1].hotspot.confidence = 49
    /\ view.list.cards[5].hotspot.confidence = 50

\* whether a sequence of hotspots is the mock bundle of the catch branch:
\* the five hotspots numbered 1 to 5, detected "now", with the mock confidences
IsMockBundle(hs) ==
    /\ Len(hs) = 5
    /\ \A k \in DOMAIN hs : hs[k].id = k /\ hs[k].detectionTime = "now"
    /\ [k \in DOMAIN hs |-> hs[k].confidence] = <<95, 78, 62, 45, 88>>

\* C19: in every state where no request is pending, the error is the
\* mock-data advisory if and only if the hotspots on screen are the mock
\* bundle.
C19_MockAdvisoryIffMockBundle ==
    NoRequestPending
    => (error = MockDataError(impl) <=> IsMockBundle(hotspots))

\* whether the three values on screen are what one response gives: the
\* response's hotspots, a ranked list taken from that response, its weather
IsResultOf(data) ==
    /\ hotspots = FieldOrEmpty(data.hotspots)
    /\ topRanked \in {FieldOrEmpty(data.top5), FieldOrEmpty(data.hotspots), << >>}
    /\ weather = (IF data.weather = << >> THEN Null ELSE data.weather[1])

\* whether the three values on screen are one mock bundle
IsMockResult ==
    /\ IsMockBundle(hotspots)
    /\ topRanked = hotspots
    /\ weather = [temp |-> 32, humidity |-> 15, windSpeed |-> 25]

\* C20: between handler steps the hotspots are the initial empty sequence or
\* exactly the result set of one retrieval completion, real or mock, never a
\* merge or a patch of two, and the hotspots, the ranked list and the weather
\* are the ones the same completion (the last one to run) wrote.
C20_OneCompletionOnScreen ==
    IF completed = << >>
    THEN hotspots = << >> /\ topRanked = << >> /\ weather = Null
    ELSE /\ written # Null
         /\ hotspots = written.hotspots
         /\ topRanked = written.topRanked
         /\ weather = written.weather
         /\ \/ IsMockResult
            \/ \E data \in RetrievalData : IsResultOf(data)

\* a second completion has replaced the mock bundle of a first, failed one
\* by the result set of its response
C20_Witness ==
    /\ Len(completed) = 2
    /\ last.op = "fetchHotspotsDone"
    /\ last.resp.ok
    /\ error = MockDataError(impl)
    /\ Len(hotspots) = 6
    /\ Len(topRanked) = 5
    /\ weather = ServerWeather

====
